---- MODULE Spec2Model ----
(***************************************************************************)
(* Model of solara/hooks/use_thread.py: the use_thread hook.                *)
(*                                                                         *)
(* One hook instance.  The render side (the effect system) calls run() and *)
(* cleanup() and may call Result.cancel(); every run() spawns one runner   *)
(* thread.  Each shared read or write of a runner is one step, labelled    *)
(* with the source line it models ("l97" is line 97 of use_thread.py), so  *)
(* that all interleavings of the unlocked accesses are explored.  The user *)
(* work is any callback: at each of its steps it returns, yields, raises   *)
(* or is aborted by the trace function of cancel_guard.                    *)
(*                                                                         *)
(* Spec is the program; SpecHistory is the same program with three history *)
(* variables recorded, for the properties that speak about the past.       *)
(***************************************************************************)
EXTENDS Integers, Sequences, FiniteSets, TLC

(* Bounds of the model *)
MaxRuns == 2
MaxItems == 2

(* lines of user work traced in one guarded call *)
MaxLines == 3

Threads == 1..MaxRuns

(* Python's None for references to threads and to values *)
None == 0

(* ResultState *)
INITIAL == "INITIAL"
STARTING == "STARTING"
WAITING == "WAITING"
RUNNING == "RUNNING"
FINISHED == "FINISHED"
ERROR == "ERROR"
CANCELLED == "CANCELLED"
ResultState == {INITIAL, STARTING, WAITING, RUNNING, FINISHED, ERROR, CANCELLED}

(* The values user work of thread t produces: its return value, or the     *)
(* i-th item of its generator.                                              *)
Ret(t) == 10 * t
Item(t, i) == 10 * t + i
Generator == -1

(* error.current: None, or the exception instance raised in thread by *)
NoError == [type |-> "None", by |-> 0]
Exc(type, t) == [type |-> type, by |-> t]

(* The exception classes that matter, each with its base class. *)
CancelledErrorFromException == "Exception"
(* line 22 *)
CancelledErrorBase == "BaseException"
Base(c) ==
    CASE c = "CancelledError" -> CancelledErrorBase
      [] c = "Exception" -> "BaseException"
      [] c = "SystemExit" -> "BaseException"
      [] OTHER -> "object"

RECURSIVE IsSubclass(_, _)
IsSubclass(c, cls) ==
    IF c = cls THEN TRUE
    ELSE IF c = "object" THEN FALSE
    ELSE IsSubclass(Base(c), cls)

(* Where an exception of class c raised by the user work at lines 126/131  *)
(* continues: the handler of line 144, or (line 150, or uncaught) the      *)
(* finally clause of line 154.                                             *)
Handler(c) == IF IsSubclass(c, "Exception") THEN "l145" ELSE "l155"

(* reacton.core._get_render_context(required=False) as the trace function  *)
(* sees it: no context, a context that is not rendering, one that is.      *)
RenderContexts == {"none", "idle", "rendering"}

(* The trace function aborting whenever the flag is set *)
tracefuncIgnoresRender(is_set, rc) == is_set

(* tracefunc raises CancelledError *)
tracefunc(is_set, rc) == is_set /\ (rc = "none" \/ rc # "rendering")

VARIABLES
    result_state,     \* the use_state cell (line 46)
    result,           \* result.current (line 48)
    error,            \* error.current (line 47)
    running_thread,   \* running_thread.current (line 49)
    lock,             \* holder of the lock (line 44), None when free
    cancel,           \* cancel[t]: is the Event of t's lineage set (line 51)
    nthreads,         \* number of run() calls so far
    effect,           \* the effect system: "run" when run() is due, else "idle"
    pc,               \* pc[t]: position of runner t
    wait_for_thread,  \* the local of line 90
    value,            \* the local of line 126
    e,                \* the class of the exception raised in t's user work
    produced,         \* number of items t's generator has yielded
    record_history,   \* are the history variables below recorded (fixed by Init)
    running_at_trigger,  \* history: the newest run() was triggered (cleanup() called)
                         \* while the runner before it was in its user work
    cancel_after_finish, \* history: cancel() was called in state FINISHED or ERROR, no run() since
    cancel_while_auth,   \* history: the newest lineage's flag was set while its runner was
                         \* authoritative and before its finally clause
    monitor              \* one call of the work under cancel_guard (lines 53-84), seen
                         \* on its own: position, flag, render context, trace function

shared == <<result_state, result, error, running_thread, lock, cancel>>
locals == <<pc, wait_for_thread, value, e, produced>>
render == <<nthreads, effect>>
history == <<record_history, running_at_trigger, cancel_after_finish, cancel_while_auth>>
vars == <<shared, locals, render, history, monitor>>

(* Positions of a runner in its user work, between the RUNNING write and   *)
(* the end of the work                                                     *)
UserWork == {"l126", "l131", "l132"}

(* Positions of a runner before its finally clause (line 154) *)
BeforeCleanup == {"l97", "l99", "l102", "l112", "l126",
                  "l131", "l132", "l137", "l138", "l140", "l141", "l142",
                  "l143", "l145", "l146", "l148"}

(* The hook after its first render, before the effect system calls run() *)
InitProgram ==
    /\ result_state = INITIAL
    /\ result = None
    /\ error = NoError
    /\ running_thread = None
    /\ lock = None
    /\ cancel = [t \in Threads |-> FALSE]
    /\ nthreads = 0
    /\ effect = "run"
    /\ pc = [t \in Threads |-> "unborn"]
    /\ wait_for_thread = [t \in Threads |-> None]
    /\ value = [t \in Threads |-> None]
    /\ e = [t \in Threads |-> "None"]
    /\ produced = [t \in Threads |-> 0]
    /\ running_at_trigger = FALSE
    /\ cancel_after_finish = FALSE
    /\ cancel_while_auth = FALSE

(* No guarded call is looked at on its own *)
MonitorOff ==
    [at |-> "off", intrusive_cancel |-> TRUE, is_set |-> FALSE, rc |-> "none",
     trace |-> "none", prev |-> "none", lines |-> 0]

Init == InitProgram /\ record_history = FALSE /\ monitor = MonitorOff

InitHistory == InitProgram /\ record_history = TRUE /\ monitor = MonitorOff

Goto(t, l) == pc' = [pc EXCEPT ![t] = l]

(* runner returns: its locals are gone *)
Return(t) ==
    /\ Goto(t, "done")
    /\ wait_for_thread' = [wait_for_thread EXCEPT ![t] = None]
    /\ value' = [value EXCEPT ![t] = None]
    /\ e' = [e EXCEPT ![t] = "None"]
    /\ produced' = [produced EXCEPT ![t] = 0]

Stay(t, l) ==
    /\ Goto(t, l)
    /\ UNCHANGED <<wait_for_thread, value, e, produced>>

(* threading.current_thread() == running_thread.current *)
IsCurrent(t) == running_thread = t

----------------------------------------------------------------------------
(* The render side *)

(* run(): lines 86-87 and 161-163 *)
run ==
    /\ effect = "run"
    /\ nthreads < MaxRuns
    /\ result_state' = STARTING
    /\ nthreads' = nthreads + 1
    /\ effect' = "idle"
    /\ pc' = [pc EXCEPT ![nthreads + 1] = "l91"]
    /\ cancel_after_finish' = FALSE
    /\ cancel_while_auth' = FALSE
    /\ UNCHANGED <<result, error, running_thread, lock, cancel>>
    /\ UNCHANGED <<wait_for_thread, value, e, produced, record_history, running_at_trigger>>
    /\ UNCHANGED monitor

(* A cancel.set() on one Event shared by all lineages *)
EventSetShared(t) ==
    /\ cancel' = [u \in Threads |-> TRUE]
    /\ cancel_while_auth' = (cancel_while_auth \/
                                (/\ record_history
                                 /\ t = nthreads /\ IsCurrent(t) /\ pc[t] \in BeforeCleanup))
    /\ UNCHANGED <<result_state, result, error, running_thread, lock>>

(* A cancel.set() that also marks a terminated run as cancelled *)
EventSetMarks(t) ==
    /\ cancel' = [cancel EXCEPT ![t] = TRUE]
    /\ cancel_while_auth' = (cancel_while_auth \/
                                (/\ record_history
                                 /\ t = nthreads /\ IsCurrent(t) /\ pc[t] \in BeforeCleanup))
    /\ result_state' = IF pc[t] = "done" THEN CANCELLED ELSE result_state
    /\ UNCHANGED <<result, error, running_thread, lock>>

(* cancel.set(), for the Event of lineage t *)
EventSet(t) ==
    /\ cancel' = [cancel EXCEPT ![t] = TRUE]
    /\ cancel_while_auth' = (cancel_while_auth \/
                                (/\ record_history
                                 /\ t = nthreads /\ IsCurrent(t) /\ pc[t] \in BeforeCleanup))
    /\ UNCHANGED <<result_state, result, error, running_thread, lock>>

(* cleanup(): lines 165-166, called by the effect system when the          *)
(* dependencies or the retry counter changed; run() follows.               *)
cleanup ==
    /\ effect = "idle"
    /\ nthreads < MaxRuns
    /\ EventSet(nthreads)
    /\ effect' = "run"
    /\ running_at_trigger' = (record_history /\ pc[nthreads] \in UserWork)
    /\ UNCHANGED <<nthreads, locals, record_history, cancel_after_finish, monitor>>

(* Result.cancel (line 171) of any render so far, and cleanup() at         *)
(* teardown, after which no run() follows.                                 *)
cancel_set(t) ==
    /\ t <= nthreads
    /\ EventSet(t)
    /\ cancel_after_finish' = (cancel_after_finish \/
                                  (record_history /\ result_state \in {FINISHED, ERROR}))
    /\ UNCHANGED <<render, locals, record_history, running_at_trigger, monitor>>

----------------------------------------------------------------------------
(* runner(): lines 89-159 *)

(* lines 91 and 95: with lock, if running_thread.current *)
l91(t) ==
    /\ pc[t] = "l91"
    /\ lock = None
    /\ lock' = t
    /\ Goto(t, IF running_thread # None THEN "l96" ELSE "l97")
    /\ UNCHANGED <<result_state, result, error, running_thread, cancel>>
    /\ UNCHANGED <<wait_for_thread, value, e, produced, render, history, monitor>>

(* line 96 *)
l96(t) ==
    /\ pc[t] = "l96"
    /\ wait_for_thread' = [wait_for_thread EXCEPT ![t] = running_thread]
    /\ Goto(t, "l97")
    /\ UNCHANGED <<shared, value, e, produced, render, history, monitor>>

(* Line 97 without the release of the lock *)
l97KeepsLock(t) ==
    /\ pc[t] = "l97"
    /\ running_thread' = t
    /\ Goto(t, IF wait_for_thread[t] # None THEN "l99" ELSE "l112")
    /\ UNCHANGED <<result_state, result, error, lock, cancel>>
    /\ UNCHANGED <<wait_for_thread, value, e, produced, render, history, monitor>>

(* line 97, the release of the lock, and the test of line 98 *)
l97(t) ==
    /\ pc[t] = "l97"
    /\ running_thread' = t
    /\ lock' = None
    /\ Goto(t, IF wait_for_thread[t] # None THEN "l99" ELSE "l112")
    /\ UNCHANGED <<result_state, result, error, cancel>>
    /\ UNCHANGED <<wait_for_thread, value, e, produced, render, history, monitor>>

(* line 99 *)
l99(t) ==
    /\ pc[t] = "l99"
    /\ result_state' = WAITING
    /\ Goto(t, "l102")
    /\ UNCHANGED <<result, error, running_thread, lock, cancel>>
    /\ UNCHANGED <<wait_for_thread, value, e, produced, render, history, monitor>>

(* Lines 102-108 without the test of line 105 *)
l102NoTest(t) ==
    /\ pc[t] = "l102"
    /\ pc[wait_for_thread[t]] = "done"
    /\ Stay(t, "l112")
    /\ UNCHANGED <<shared, render, history, monitor>>

(* lines 102-108: wait_for_thread.join(), then the test of line 105 *)
l102(t) ==
    /\ pc[t] = "l102"
    /\ pc[wait_for_thread[t]] = "done"
    /\ IF ~IsCurrent(t) THEN Return(t) ELSE Stay(t, "l112")
    /\ UNCHANGED <<shared, render, history, monitor>>

(* Lines 112-118 leaving the state as it is *)
l112Silent(t) ==
    /\ pc[t] = "l112"
    /\ \/ /\ Goto(t, "l126")
          /\ UNCHANGED <<wait_for_thread, value, e, produced>>
       \/ Return(t)
    /\ UNCHANGED <<result_state, result, error, running_thread, lock, cancel>>
    /\ UNCHANGED <<render, history, monitor>>

(* lines 112-118: set_result_state(RUNNING), then inspect.signature(callback), *)
(* which is outside the try statement of line 119: for a callback without  *)
(* a signature (a builtin such as time.time) it raises ValueError and the  *)
(* runner dies there, without the finally clause                           *)
l112(t) ==
    /\ pc[t] = "l112"
    /\ result_state' = RUNNING
    /\ \/ /\ Goto(t, "l126")
          /\ UNCHANGED <<wait_for_thread, value, e, produced>>
       \/ Return(t)
    /\ UNCHANGED <<result, error, running_thread, lock, cancel>>
    /\ UNCHANGED <<render, history, monitor>>

(* The user work raises an exception of class c: it continues at Handler(c) *)
Raise(t, c) ==
    /\ e' = [e EXCEPT ![t] = c]
    /\ Goto(t, Handler(c))

(* cancel_guard, lines 53-84: the trace function may run at a step of the  *)
(* user work and raises CancelledError there.                              *)
cancel_guard(t) ==
    /\ \E rc \in RenderContexts : tracefunc(cancel[t], rc)
    /\ Raise(t, "CancelledError")

(* lines 125-127 and 139: value = f() *)
l126(t) ==
    /\ pc[t] = "l126"
    /\ \/ /\ value' = [value EXCEPT ![t] = Ret(t)]
          /\ Goto(t, "l140")
          /\ UNCHANGED e
       \/ /\ value' = [value EXCEPT ![t] = Generator]
          /\ Goto(t, "l131")
          /\ UNCHANGED e
       \/ /\ \E c \in {"Exception", "SystemExit"} : Raise(t, c)
          /\ UNCHANGED value
       \/ /\ cancel_guard(t)
          /\ UNCHANGED value
    /\ UNCHANGED <<shared, wait_for_thread, produced, render, history, monitor>>

(* The loop of lines 128-134 pulling an item without publishing it *)
l131Unpublished(t) ==
    /\ pc[t] = "l131"
    /\ \/ /\ produced[t] < MaxItems
          /\ produced' = [produced EXCEPT ![t] = @ + 1]
          /\ Goto(t, "l132")
          /\ UNCHANGED <<e, result>>
       \/ /\ Goto(t, "l137")
          /\ UNCHANGED <<e, produced, result>>
    /\ UNCHANGED <<result_state, error, running_thread, lock, cancel>>
    /\ UNCHANGED <<wait_for_thread, value, render, history, monitor>>

(* lines 128-134: result.current = next(value) *)
l131(t) ==
    /\ pc[t] = "l131"
    /\ \/ /\ produced[t] < MaxItems
          /\ produced' = [produced EXCEPT ![t] = @ + 1]
          /\ result' = Item(t, produced[t] + 1)
          /\ Goto(t, "l132")
          /\ UNCHANGED e
       \/ /\ Goto(t, "l137")      \* StopIteration
          /\ UNCHANGED <<e, produced, result>>
       \/ /\ \E c \in {"Exception", "SystemExit"} : Raise(t, c)
          /\ UNCHANGED <<produced, result>>
       \/ /\ cancel_guard(t)
          /\ UNCHANGED <<produced, result>>
    /\ UNCHANGED <<result_state, error, running_thread, lock, cancel>>
    /\ UNCHANGED <<wait_for_thread, value, render, history, monitor>>

(* lines 132 and 136 *)
l132(t) ==
    /\ pc[t] = "l132"
    /\ error' = NoError
    /\ Goto(t, "l131")
    /\ UNCHANGED <<result_state, result, running_thread, lock, cancel>>
    /\ UNCHANGED <<wait_for_thread, value, e, produced, render, history, monitor>>

(* The identity test with != for == *)
CheckInverted(t, l, yes) ==
    /\ pc[t] = l
    /\ Goto(t, IF ~IsCurrent(t) THEN yes ELSE "l155")
    /\ UNCHANGED <<shared, wait_for_thread, value, e, produced, render, history, monitor>>

(* if threading.current_thread() == running_thread.current, at line l:     *)
(* on to line yes, else to the finally clause                              *)
Check(t, l, yes) ==
    /\ pc[t] = l
    /\ Goto(t, IF IsCurrent(t) THEN yes ELSE "l155")
    /\ UNCHANGED <<shared, wait_for_thread, value, e, produced, render, history, monitor>>

(* set_result_state(s) at line l, then the finally clause *)
SetState(t, l, s) ==
    /\ pc[t] = l
    /\ result_state' = s
    /\ Goto(t, "l155")
    /\ UNCHANGED <<result, error, running_thread, lock, cancel>>
    /\ UNCHANGED <<wait_for_thread, value, e, produced, render, history, monitor>>

l137(t) == Check(t, "l137", "l138")
l138(t) == SetState(t, "l138", FINISHED)

(* line 140 *)
l140(t) ==
    /\ pc[t] = "l140"
    /\ result' = value[t]
    /\ Goto(t, "l141")
    /\ UNCHANGED <<result_state, error, running_thread, lock, cancel>>
    /\ UNCHANGED <<wait_for_thread, value, e, produced, render, history, monitor>>

(* line 141 *)
l141(t) ==
    /\ pc[t] = "l141"
    /\ error' = NoError
    /\ Goto(t, "l142")
    /\ UNCHANGED <<result_state, result, running_thread, lock, cancel>>
    /\ UNCHANGED <<wait_for_thread, value, e, produced, render, history, monitor>>

l142(t) == Check(t, "l142", "l143")
l143(t) == SetState(t, "l143", FINISHED)

(* Line 145 resetting the value as well *)
l145ClearsValue(t) ==
    /\ pc[t] = "l145"
    /\ error' = Exc(e[t], t)
    /\ result' = None
    /\ Goto(t, "l146")
    /\ UNCHANGED <<result_state, running_thread, lock, cancel>>
    /\ UNCHANGED <<wait_for_thread, value, e, produced, render, history, monitor>>

(* line 145 *)
l145(t) ==
    /\ pc[t] = "l145"
    /\ error' = Exc(e[t], t)
    /\ Goto(t, "l146")
    /\ UNCHANGED <<result_state, result, running_thread, lock, cancel>>
    /\ UNCHANGED <<wait_for_thread, value, e, produced, render, history, monitor>>

l146(t) == Check(t, "l146", "l148")
l148(t) == SetState(t, "l148", ERROR)

(* line 155, in the finally clause *)
l155(t) ==
    /\ pc[t] = "l155"
    /\ IF IsCurrent(t) THEN Stay(t, "l156") ELSE Return(t)
    /\ UNCHANGED <<shared, render, history, monitor>>

(* line 156 *)
l156(t) ==
    /\ pc[t] = "l156"
    /\ running_thread' = None
    /\ Goto(t, "l158")
    /\ UNCHANGED <<result_state, result, error, lock, cancel>>
    /\ UNCHANGED <<wait_for_thread, value, e, produced, render, history, monitor>>

(* lines 158-159 *)
l158(t) ==
    /\ pc[t] = "l158"
    /\ result_state' = IF cancel[t] THEN CANCELLED ELSE result_state
    /\ Return(t)
    /\ UNCHANGED <<result, error, running_thread, lock, cancel>>
    /\ UNCHANGED <<render, history, monitor>>

runner(t) ==
    \/ l91(t) \/ l96(t) \/ l97(t) \/ l99(t) \/ l102(t) \/ l112(t)
    \/ l126(t) \/ l131(t) \/ l132(t) \/ l137(t) \/ l138(t)
    \/ l140(t) \/ l141(t) \/ l142(t) \/ l143(t)
    \/ l145(t) \/ l146(t) \/ l148(t)
    \/ l155(t) \/ l156(t) \/ l158(t)

Next ==
    \/ run
    \/ cleanup
    \/ \E t \in Threads : cancel_set(t)
    \/ \E t \in Threads : runner(t)

Spec == Init /\ [][Next]_vars

(* The same program, with the history variables recorded *)
SpecHistory == InitHistory /\ [][Next]_vars

(* The program with every started thread scheduled (threads are started at *)
(* line 163 and run to their end; a work of at most MaxItems items ends)   *)
SpecFair == Init /\ [][Next]_vars /\ \A t \in Threads : WF_vars(runner(t))

----------------------------------------------------------------------------
(* cancel_guard(), lines 53-84, around one call of the user work: the      *)
(* thread's trace function, the flag and the render context, step by step  *)

(* The call is about to enter `with cancel_guard()`: the parameter         *)
(* intrusive_cancel, the flag, the render context and the trace function   *)
(* the thread already has are any                                          *)
InitMonitor ==
    /\ InitProgram
    /\ record_history = FALSE
    /\ monitor \in [at : {"l55"}, intrusive_cancel : BOOLEAN, is_set : BOOLEAN,
                    rc : RenderContexts, trace : {"none", "other"},
                    prev : {"none"}, lines : {0}]

(* lines 55-80: up to the yield *)
guard_enter ==
    /\ monitor.at = "l55"
    /\ monitor' = IF ~monitor.intrusive_cancel
                  THEN [monitor EXCEPT !.at = "yield"]
                  ELSE [monitor EXCEPT !.at = "yield",
                                       !.prev = monitor.trace,
                                       !.trace = "tracefunc"]
    /\ UNCHANGED <<shared, locals, render, history>>

(* The work executes a line: with tracefunc installed, lines 59-70 run     *)
(* first and may raise, which leaves through the finally of lines 82-84    *)
trace_line ==
    /\ monitor.at = "yield"
    /\ monitor.lines < MaxLines
    /\ monitor' = IF monitor.trace = "tracefunc" /\ tracefunc(monitor.is_set, monitor.rc)
                  THEN [monitor EXCEPT !.at = "raised", !.trace = monitor.prev]
                  ELSE [monitor EXCEPT !.lines = monitor.lines + 1]
    /\ UNCHANGED <<shared, locals, render, history>>

(* The work returns: the finally of lines 82-84 *)
work_returns ==
    /\ monitor.at = "yield"
    /\ monitor' = [monitor EXCEPT !.at = "out",
                                  !.trace = IF monitor.intrusive_cancel
                                            THEN monitor.prev ELSE monitor.trace]
    /\ UNCHANGED <<shared, locals, render, history>>

(* cancel.set(), by the render thread *)
flag_set ==
    /\ monitor.at \in {"l55", "yield"}
    /\ monitor' = [monitor EXCEPT !.is_set = TRUE]
    /\ UNCHANGED <<shared, locals, render, history>>

(* The render context of line 63 starts or ends a render pass *)
render_pass ==
    /\ monitor.at \in {"l55", "yield"}
    /\ monitor.rc # "none"
    /\ monitor' = [monitor EXCEPT !.rc = IF monitor.rc = "idle" THEN "rendering" ELSE "idle"]
    /\ UNCHANGED <<shared, locals, render, history>>

NextMonitor ==
    \/ guard_enter
    \/ trace_line
    \/ work_returns
    \/ flag_set
    \/ render_pass

SpecMonitor == InitMonitor /\ [][NextMonitor]_vars

----------------------------------------------------------------------------
(* Steps of runner t, as seen in a pair of states *)

(* t executes the statement at line l *)
At(t, l) == pc[t] = l /\ pc'[t] # l

(* t writes result.current or error.current *)
WritesResultCell(t) ==
    \/ pc[t] = "l131" /\ pc'[t] = "l132"
    \/ At(t, "l132") \/ At(t, "l140") \/ At(t, "l141") \/ At(t, "l145")

(* t calls set_result_state with a state other than CANCELLED *)
WritesState(t) ==
    At(t, "l99") \/ At(t, "l112") \/ At(t, "l138") \/ At(t, "l143") \/ At(t, "l148")

(* t calls set_result_state(CANCELLED) *)
WritesCancelled(t) == At(t, "l158") /\ cancel[t]

(* t returns *)
Exits(t) == pc[t] # "done" /\ pc'[t] = "done"

(* t is killed by the exception of line 114, before its work is called *)
Dies(t) == pc[t] = "l112" /\ pc'[t] = "done"

AllDone == nthreads >= 1 /\ \A t \in 1..nthreads : pc[t] = "done"

----------------------------------------------------------------------------
(* C1: the Result Cell (result.current, error.current) is written only by  *)
(* a thread that equals running_thread.current at the moment of the write. *)
C1_ResultCellSingleWriter ==
    [][\A t \in Threads : WritesResultCell(t) => IsCurrent(t)]_vars

(* C2: every Task State write of a runner (WAITING, RUNNING, FINISHED,     *)
(* ERROR) happens while the runner equals running_thread.current, and      *)
(* CANCELLED is written only by a runner that gave up the pointer itself,  *)
(* never by one that lost it to another invocation.                        *)
C2_StateWritesGuarded ==
    [][\A t \in Threads :
          /\ WritesState(t) => IsCurrent(t)
          /\ WritesCancelled(t) => running_thread = None]_vars

(* C3: invocation 2 is triggered while invocation 1 is in its user work,   *)
(* the work of 2 does nothing but return normally and its flag is not set: *)
(* when 2 returns as the last thread, the state is FINISHED and the value  *)
(* is the value of 2.                                                      *)
C3_SupersessionFinal ==
    [][(/\ nthreads = 2
        /\ running_at_trigger
        /\ pc[1] = "done"
        /\ Exits(2) /\ ~Dies(2)
        /\ ~cancel'[2]
        /\ e[2] = "None"
        /\ value[2] # Generator)
       => (/\ result_state' = FINISHED
           /\ result' = Ret(2))]_vars

(* C4: after cancel() was called in state FINISHED or ERROR, and until the *)
(* next run(), state, value and error do not change.                       *)
C4_CancelAfterFinishNoOp ==
    [][(cancel_after_finish /\ cancel_after_finish')
       => UNCHANGED <<result_state, result, error>>]_vars

(* C5: setting the flag of a lineage whose runner has terminated changes   *)
(* neither state, value, error nor running_thread.current, and the runner  *)
(* stays terminated.                                                       *)
C5_FlagAfterExitNoOp ==
    [][\A t \in Threads :
          /\ (pc[t] = "done" /\ ~cancel[t] /\ cancel'[t])
                => UNCHANGED <<result_state, result, error, running_thread>>
          /\ pc[t] = "done" => pc'[t] = "done"]_vars

C5_Witness ==
    /\ nthreads = 1
    /\ pc[1] = "done"
    /\ cancel[1]
    /\ result_state = FINISHED

(* C6: one invocation whose work returns normally, without dependency      *)
(* change, retry or cancel: the state goes INITIAL, STARTING, RUNNING,     *)
(* FINISHED and nothing else, and at the end value is the returned value   *)
(* and error is None.                                                      *)
C6_SingleRun ==
    [][(/\ nthreads' = 1
        /\ ~cancel'[1]
        /\ ~Dies(1)
        /\ e[1] = "None" /\ e'[1] = "None"
        /\ value[1] # Generator /\ value'[1] # Generator)
       => /\ \/ result_state' = result_state
             \/ <<result_state, result_state'>> \in
                  {<<INITIAL, STARTING>>, <<STARTING, RUNNING>>, <<RUNNING, FINISHED>>}
          /\ Exits(1) => /\ result_state' = FINISHED
                         /\ result' = Ret(1)
                         /\ error' = NoError]_vars

C6_Witness ==
    /\ nthreads = 1
    /\ effect = "idle"
    /\ pc[1] = "done"
    /\ ~cancel[1]
    /\ result_state = FINISHED
    /\ result = Ret(1)
    /\ error = NoError

(* C7: a generator's items are written to result.current one by one in     *)
(* production order and by nothing else of its runner; while the runner is *)
(* authoritative the value is the last item produced; the run writes       *)
(* FINISHED with the last item as value, and without cancel nothing after. *)
C7_LazySequenceOrder ==
    [][\A t \in Threads :
          /\ (pc[t] = "l131" /\ pc'[t] = "l132")
                => /\ produced'[t] = produced[t] + 1
                   /\ result' = Item(t, produced'[t])
          /\ (value[t] = Generator /\ pc'[t] # pc[t] /\ pc'[t] # "l132")
                => result' = result
          /\ (IsCurrent(t) /\ pc[t] \in {"l131", "l137"} /\ produced[t] > 0)
                => result = Item(t, produced[t])
          /\ At(t, "l138")
                => /\ result_state' = FINISHED
                   /\ produced[t] > 0 => result' = Item(t, produced[t])
          /\ (value[t] = Generator /\ ~cancel[t] /\ pc'[t] # pc[t]
                /\ pc[t] \in {"l155", "l156", "l158"})
                => UNCHANGED <<result_state, result>>]_vars

C7_Witness ==
    /\ pc[1] = "l155"
    /\ value[1] = Generator
    /\ e[1] = "None"
    /\ produced[1] = MaxItems
    /\ ~cancel[1]
    /\ result_state = FINISHED
    /\ result = Item(1, MaxItems)

(* C8: an ordinary exception of the user work is caught (the runner goes   *)
(* on at line 145), error becomes that exception, the state becomes ERROR  *)
(* with that error in place, and value is left as it was at the raise.     *)
C8_ErrorIsolation ==
    [][\A t \in Threads :
          /\ (e[t] = "None" /\ e'[t] = "Exception")
                => /\ pc'[t] = "l145"
                   /\ UNCHANGED <<result_state, result, error>>
          /\ At(t, "l145") => error' = Exc("Exception", t)
          /\ (IsCurrent(t) /\ e[t] = "Exception" /\ pc[t] \in {"l145", "l146", "l148"})
                => result' = result
          /\ At(t, "l148")
                => /\ result_state' = ERROR
                   /\ error' = Exc("Exception", t)
          /\ (e[t] = "Exception" /\ ~cancel[t] /\ pc'[t] # pc[t]
                /\ pc[t] \in {"l155", "l156", "l158"})
                => UNCHANGED <<result_state, result, error>>]_vars

C8_Witness ==
    /\ pc[1] = "l155"
    /\ e[1] = "Exception"
    /\ ~cancel[1]
    /\ result_state = ERROR
    /\ error = Exc("Exception", 1)
    /\ result = Item(1, 1)

(* C9: a CancelledError raised by the trace function takes the runner to   *)
(* its finally clause with state, value and error untouched; it is never   *)
(* stored in error.current and the aborted runner never writes ERROR.      *)
C9_AbortSwallowed ==
    [][\A t \in Threads :
          /\ (e[t] # "CancelledError" /\ e'[t] = "CancelledError")
                => /\ pc'[t] = "l155"
                   /\ UNCHANGED <<result_state, result, error>>
          /\ (e[t] = "CancelledError" /\ pc'[t] # pc[t])
                => /\ UNCHANGED <<result, error>>
                   /\ result_state' \in {result_state, CANCELLED}
          /\ error'.type # "CancelledError"]_vars

C9_Witness ==
    /\ pc[1] = "l155"
    /\ e[1] = "CancelledError"
    /\ result_state = RUNNING
    /\ result = Item(1, 1)
    /\ error = NoError

(* C10: the newest lineage's flag was set while its runner was             *)
(* authoritative and before its finally clause, and no run() followed:     *)
(* when that runner returns as the last thread, no runner having been      *)
(* killed at line 114, running_thread.current is None and the state is     *)
(* CANCELLED.                                                              *)
C10_CancelledAtExit ==
    [][\A t \in Threads :
          (/\ t = nthreads
           /\ cancel_while_auth
           /\ Exits(t) /\ ~Dies(t)
           /\ running_thread # None => pc[running_thread] # "done"
           /\ \A u \in 1..nthreads : u # t => pc[u] = "done")
          => (running_thread' = None /\ result_state' = CANCELLED)]_vars

----------------------------------------------------------------------------
(* C11: running_thread.current is changed under the lock: the hand-off of  *)
(* line 97 is taken by the holder of the lock, and the clearing of line    *)
(* 156 is atomic with the test of line 155, as it is under the lock, so it *)
(* never replaces a pointer that a newer thread installed.                 *)
C11_PointerMutatedUnderLock ==
    [][\A t \in Threads :
          /\ At(t, "l97") => lock = t
          /\ At(t, "l156") => running_thread = t]_vars

(* C12: a runner that waits for its predecessor (state WAITING, lines      *)
(* 99-102) and belongs to the newest invocation, with its flag unset, does *)
(* not leave through the return of line 105: it goes on to write RUNNING   *)
(* and to call the user work.                                              *)
C12_NewestWaiterRuns ==
    [][\A t \in Threads :
          (/\ At(t, "l102")
           /\ t = nthreads
           /\ ~cancel[t])
          => pc'[t] = "l112"]_vars

Working == BeforeCleanup \ {"l97", "l99", "l102", "l112"}

(* Runner u has been in its work and has a write of the state, of the      *)
(* Result Cell or of the pointer still ahead of it                         *)
StillWrites(u) ==
    \/ pc[u] \in Working \cup {"l156"}
    \/ pc[u] = "l158" /\ cancel[u]

(* C14: at most one runner is between its RUNNING write and its finally    *)
(* clause, and while a runner is there no older runner that has worked has *)
(* a write still ahead of it.                                              *)
C14_UserWorkExclusive ==
    \A t, u \in Threads :
        (t # u /\ pc[t] \in Working) =>
            /\ pc[u] \notin Working
            /\ u < t => ~StillWrites(u)

(* C15: a runner whose join has returned and that does not equal           *)
(* running_thread.current at line 105 returns in that step, leaving the    *)
(* state, the Result Cell and the pointer as they are, and a runner that   *)
(* has returned takes no further step: it never writes RUNNING and never   *)
(* calls the user work.                                                    *)
C15_SilentExit ==
    [][\A t \in Threads :
          /\ (At(t, "l102") /\ ~IsCurrent(t)) =>
                 /\ pc'[t] = "done"
                 /\ UNCHANGED <<result_state, result, error, running_thread>>
          /\ pc[t] = "done" => pc'[t] = "done"]_vars

(* Both runners have returned and the last state written is WAITING: the   *)
(* runner that wrote it left at line 105.                                  *)
C15_Witness ==
    /\ nthreads = 2
    /\ pc[1] = "done" /\ pc[2] = "done"
    /\ result_state = WAITING

(* C16: the trace function aborts a step of the work only when the flag   *)
(* is set and the render context is absent or not rendering: never during  *)
(* a render pass, never with the flag unset, and never when                *)
(* intrusive_cancel is off.                                                *)
C16_AbortOnlyWhenSetAndNotRendering ==
    [][monitor'.at = "raised" /\ monitor.at # "raised"
       => (/\ monitor.is_set
           /\ monitor.rc # "rendering"
           /\ monitor.intrusive_cancel)]_vars

(* The work was aborted at a traced line, with a render context that is    *)
(* not rendering, after lines that were not aborted.                       *)
C16_Witness ==
    /\ monitor.at = "raised"
    /\ monitor.rc = "idle"
    /\ monitor.lines > 0

(* C17: the flag of a lineage, once set, stays set; a step sets the flag   *)
(* of one lineage only; when run() starts an invocation, the flag of the   *)
(* lineage before it is set and the flag of the new lineage is unset; and  *)
(* the work of a runner is aborted only when the flag of its own lineage   *)
(* is set.                                                                 *)
C17_FlagPerLineage ==
    [][/\ \A t \in Threads : cancel[t] => cancel'[t]
       /\ \A t, u \in Threads :
              (t # u /\ cancel'[t] # cancel[t]) => cancel'[u] = cancel[u]
       /\ nthreads' = nthreads + 1 =>
              /\ ~cancel'[nthreads']
              /\ nthreads >= 1 => cancel[nthreads]
       /\ \A t \in Threads :
              (e'[t] = "CancelledError" /\ e[t] # "CancelledError") => cancel[t]]_vars

(* The second invocation is in its user work with its flag unset, after    *)
(* the flag of the first lineage was set.                                  *)
C17_Witness ==
    /\ nthreads = 2
    /\ cancel[1] /\ ~cancel[2]
    /\ pc[2] \in UserWork

(* C18: whenever the state is FINISHED, error.current is None.             *)
C18_FinishedHasNoError ==
    result_state = FINISHED => error = NoError

(* C19: running_thread.current never refers to a runner that has          *)
(* terminated, and it is None once every runner has terminated.            *)
C19_PointerIsLive ==
    /\ running_thread # None => pc[running_thread] # "done"
    /\ AllDone => running_thread = None

(* C20: every runner that was started terminates (from some point on each *)
(* runner is either not started or has returned); the lock is held only    *)
(* within lines 91-97, never across the join or the user work; and run()   *)
(* can always be taken when it is due, whatever the lock and the threads   *)
(* are doing.                                                              *)
C20_RunnersTerminate ==
    /\ [](lock # None => pc[lock] \in {"l96", "l97"})
    /\ []((effect = "run" /\ nthreads < MaxRuns) => ENABLED run)
    /\ <>[](\A t \in Threads : pc[t] \in {"unborn", "done"})

(* The second runner has joined the first, which has terminated, and goes  *)
(* on to its work.                                                         *)
C20_Witness ==
    /\ nthreads = 2
    /\ wait_for_thread[2] = 1
    /\ pc[1] = "done"
    /\ pc[2] = "l112"

TypeOK ==
    /\ result_state \in ResultState
    /\ running_thread \in {None} \cup Threads
    /\ lock \in {None} \cup Threads
    /\ nthreads \in 0..MaxRuns
====
